---- MODULE Spec2Model ----
(***************************************************************************)
(* Model of src/financial_screenshot.py: the OCR text extraction           *)
(* (OCRProcessor._parse_text), the review dialog (ErrorCorrectionDialog)   *)
(* and the main window's handlers (ExpenseApp).                            *)
(*                                                                         *)
(* Texts are TLA+ strings, read character by character with SubSeq.        *)
(* Decimals and floats are modelled by what Python computes: a Decimal is  *)
(* its sign, coefficient and number of fraction digits, a float is the     *)
(* IEEE-754 double as sign, significand and binary exponent, both over     *)
(* natural numbers of any size, since TLC's integers are 32 bits.          *)
(***************************************************************************)
EXTENDS Integers, Sequences, FiniteSets, TLC

\* Python's None
None == [none |-> TRUE]

(***************************************************************************)
(* Characters and strings                                                  *)
(***************************************************************************)
Digits == {"0", "1", "2", "3", "4", "5", "6", "7", "8", "9"}

Whitespace == {" ", "\n", "\t", "\r"}

Ch(s, i) == SubSeq(s, i, i)

DigitVal(c) ==
  CASE c = "0" -> 0 [] c = "1" -> 1 [] c = "2" -> 2 [] c = "3" -> 3
    [] c = "4" -> 4 [] c = "5" -> 5 [] c = "6" -> 6 [] c = "7" -> 7
    [] c = "8" -> 8 [] c = "9" -> 9

DigitChar(d) ==
  CASE d = 0 -> "0" [] d = 1 -> "1" [] d = 2 -> "2" [] d = 3 -> "3"
    [] d = 4 -> "4" [] d = 5 -> "5" [] d = 6 -> "6" [] d = 7 -> "7"
    [] d = 8 -> "8" [] d = 9 -> "9"

\* str(n) for n >= 0
RECURSIVE IntStr(_)
IntStr(n) == IF n < 10 THEN DigitChar(n) ELSE IntStr(n \div 10) \o DigitChar(n % 10)

\* s.isdigit(): non-empty and every character a digit
isdigit(s) == Len(s) > 0 /\ \A i \in 1..Len(s) : Ch(s, i) \in Digits

\* s.strip()
RECURSIVE lstrip(_)
lstrip(s) == IF Len(s) > 0 /\ Ch(s, 1) \in Whitespace THEN lstrip(Tail(s)) ELSE s

RECURSIVE rstrip(_)
rstrip(s) ==
  IF Len(s) > 0 /\ Ch(s, Len(s)) \in Whitespace
  THEN rstrip(SubSeq(s, 1, Len(s) - 1)) ELSE s

strip(s) == rstrip(lstrip(s))

\* length of the longest prefix of s, from position i on, made of characters in S
RECURSIVE Span(_, _, _)
Span(s, i, S) == IF i <= Len(s) /\ Ch(s, i) \in S THEN 1 + Span(s, i + 1, S) ELSE 0

\* length of the longest prefix of s, from position i on, with no character in S
RECURSIVE SpanNot(_, _, _)
SpanNot(s, i, S) ==
  IF i <= Len(s) /\ Ch(s, i) \notin S THEN 1 + SpanNot(s, i + 1, S) ELSE 0

\* text.split("\n"): the pieces between the line feeds, empty pieces kept
RECURSIVE split_lines(_)
split_lines(text) ==
  LET n == SpanNot(text, 1, {"\n"})
  IN  IF n = Len(text) THEN <<text>>
      ELSE <<SubSeq(text, 1, n)>> \o split_lines(SubSeq(text, n + 2, Len(text)))

\* line.split(): the maximal runs of non-whitespace characters
RECURSIVE split(_)
split(line) ==
  LET s == lstrip(line)
      n == SpanNot(s, 1, Whitespace)
  IN  IF Len(s) = 0 THEN <<>>
      ELSE <<SubSeq(s, 1, n)>> \o split(SubSeq(s, n + 1, Len(s)))

\* s.replace(",", "")
RECURSIVE remove_commas(_)
remove_commas(s) ==
  IF Len(s) = 0 THEN ""
  ELSE (IF Ch(s, 1) = "," THEN "" ELSE Ch(s, 1)) \o remove_commas(Tail(s))

(***************************************************************************)
(* Natural numbers of any size (Python's int, a Decimal's coefficient, a   *)
(* double's significand): base-10^4 limbs, least significant first, no     *)
(* zero limb at the top; <<>> is 0.                                        *)
(***************************************************************************)
Base == 100 * 100

RECURSIVE Pow10(_)
Pow10(k) == IF k = 0 THEN 1 ELSE 10 * Pow10(k - 1)

RECURSIVE Pow2(_)
Pow2(k) == IF k = 0 THEN 1 ELSE 2 * Pow2(k - 1)

Max(a, b) == IF a >= b THEN a ELSE b

Front(s) == SubSeq(s, 1, Len(s) - 1)

Rest(s) == IF Len(s) = 0 THEN s ELSE Tail(s)

Limb(a, i) == IF i <= Len(a) THEN a[i] ELSE 0

RECURSIVE BNorm(_)
BNorm(a) == IF Len(a) > 0 /\ a[Len(a)] = 0 THEN BNorm(Front(a)) ELSE a

\* of an integer n >= 0
RECURSIVE BOfInt(_)
BOfInt(n) == IF n = 0 THEN <<>> ELSE <<n % Base>> \o BOfInt(n \div Base)

\* as an integer, when it is small enough
RECURSIVE BToInt(_)
BToInt(a) == IF Len(a) = 0 THEN 0 ELSE a[1] + Base * BToInt(Tail(a))

\* the value of a string of at most four digits ("" is 0)
RECURSIVE DigitsVal(_)
DigitsVal(s) ==
  IF Len(s) = 0 THEN 0
  ELSE 10 * DigitsVal(Front(s)) + DigitVal(Ch(s, Len(s)))

\* of a string of digits
RECURSIVE BOfLimbs(_)
BOfLimbs(s) ==
  IF Len(s) <= 4 THEN <<DigitsVal(s)>>
  ELSE <<DigitsVal(SubSeq(s, Len(s) - 3, Len(s)))>> \o BOfLimbs(SubSeq(s, 1, Len(s) - 4))

BOfDigits(s) == BNorm(BOfLimbs(s))

\* a limb below the top one, as four digits
Limb4(n) ==
  IntStr(n \div 1000) \o IntStr((n \div 100) % 10) \o IntStr((n \div 10) % 10)
    \o IntStr(n % 10)

\* str(a)
RECURSIVE BLowStr(_)
BLowStr(a) == IF Len(a) = 0 THEN "" ELSE BLowStr(Tail(a)) \o Limb4(a[1])

BToStr(a) ==
  IF Len(a) = 0 THEN "0" ELSE IntStr(a[Len(a)]) \o BLowStr(Front(a))

\* the number of decimal digits of a (0 for 0)
BDigits(a) == IF Len(a) = 0 THEN 0 ELSE 4 * (Len(a) - 1) + Len(IntStr(a[Len(a)]))

\* a + b + c, c a carry
RECURSIVE BAddC(_, _, _)
BAddC(a, b, c) ==
  IF Len(a) = 0 /\ Len(b) = 0 THEN BOfInt(c)
  ELSE LET s == Limb(a, 1) + Limb(b, 1) + c
       IN  <<s % Base>> \o BAddC(Rest(a), Rest(b), s \div Base)

BAdd(a, b) == BAddC(a, b, 0)

\* a - b - c for a >= b + c, c a borrow
RECURSIVE BSubC(_, _, _)
BSubC(a, b, c) ==
  IF Len(a) = 0 THEN <<>>
  ELSE LET s == a[1] - Limb(b, 1) - c
       IN  <<(s + Base) % Base>> \o BSubC(Tail(a), Rest(b), IF s < 0 THEN 1 ELSE 0)

BSub(a, b) == BNorm(BSubC(a, b, 0))

\* -1, 0 or 1 as a < b, a = b or a > b
RECURSIVE BCmpLimbs(_, _)
BCmpLimbs(a, b) ==
  IF Len(a) = 0 THEN 0
  ELSE IF a[Len(a)] < b[Len(a)] THEN -1
  ELSE IF a[Len(a)] > b[Len(a)] THEN 1
  ELSE BCmpLimbs(Front(a), Front(b))

BCmp(a, b) ==
  IF Len(a) < Len(b) THEN -1 ELSE IF Len(a) > Len(b) THEN 1 ELSE BCmpLimbs(a, b)

\* a * k + c for 0 <= k <= 10^4
RECURSIVE BMulC(_, _, _)
BMulC(a, k, c) ==
  IF Len(a) = 0 THEN BOfInt(c)
  ELSE LET s == a[1] * k + c
       IN  <<s % Base>> \o BMulC(Tail(a), k, s \div Base)

BMulSmall(a, k) == BNorm(BMulC(a, k, 0))

\* (r * Base^Len(a) + a) div k and mod k for 0 <= r < k <= 10^4
RECURSIVE BDivR(_, _, _)
BDivR(a, k, r) ==
  IF Len(a) = 0 THEN <<>>
  ELSE LET t == r * Base + a[Len(a)]
       IN  Append(BDivR(Front(a), k, t % k), t \div k)

RECURSIVE BModR(_, _, _)
BModR(a, k, r) ==
  IF Len(a) = 0 THEN r ELSE BModR(Front(a), k, (r * Base + a[Len(a)]) % k)

BDivSmall(a, k) == BNorm(BDivR(a, k, 0))

BModSmall(a, k) == BModR(a, k, 0)

\* a * 2^k, a div 2^k, a * 10^k, a div 10^k
RECURSIVE BMulPow2(_, _)
BMulPow2(a, k) ==
  IF k >= 13 THEN BMulPow2(BMulSmall(a, 8192), k - 13) ELSE BMulSmall(a, Pow2(k))

RECURSIVE BDivPow2(_, _)
BDivPow2(a, k) ==
  IF k >= 13 THEN BDivPow2(BDivSmall(a, 8192), k - 13) ELSE BDivSmall(a, Pow2(k))

RECURSIVE BMulPow10(_, _)
BMulPow10(a, k) ==
  IF k >= 4 THEN BMulPow10(BMulSmall(a, Base), k - 4) ELSE BMulSmall(a, Pow10(k))

RECURSIVE BDivPow10(_, _)
BDivPow10(a, k) ==
  IF k >= 4 THEN BDivPow10(BDivSmall(a, Base), k - 4) ELSE BDivSmall(a, Pow10(k))

\* a / (10^p * 2^q) rounded to the nearest integer, ties to the even one
RoundDiv(a, p, q) ==
  LET quo  == BDivPow2(BDivPow10(a, p), q)
      rem  == BSub(a, BMulPow2(BMulPow10(quo, p), q))
      half == BCmp(BMulSmall(rem, 2), BMulPow2(BMulPow10(<<1>>, p), q))
  IN  IF half < 0 \/ (half = 0 /\ BModSmall(quo, 2) = 0) THEN quo
      ELSE BAdd(quo, <<1>>)

\* n with 2^n <= a / t < 2^(n+1), for a > 0 and t > 0
RECURSIVE Log2Floor(_, _)
Log2Floor(a, t) ==
  LET t2  == BMulSmall(t, 2)
      t13 == BMulSmall(t, 8192)
  IN  IF BCmp(a, t) < 0 THEN Log2Floor(BMulSmall(a, 2), t) - 1
      ELSE IF BCmp(a, t13) >= 0 THEN 13 + Log2Floor(a, t13)
      ELSE IF BCmp(a, t2) >= 0 THEN 1 + Log2Floor(a, t2)
      ELSE 0

(***************************************************************************)
(* Decimal: [neg, m, e] is (-1)^neg * m / 10^e, m the coefficient and e    *)
(* the number of fraction digits, so the arithmetic is exact, as Python's  *)
(* is on the few digits of these amounts.                                  *)
(***************************************************************************)
Dec(neg, m, e) == [neg |-> neg, m |-> m, e |-> e]

\* Decimal(text): surrounding whitespace is ignored, then an optional sign, then
\* digits with at most one decimal point and at least one digit; anything else
\* raises InvalidOperation, here None.  (The exponent, "_", NaN and Infinity forms
\* Decimal also reads need characters no text of this model holds.)
Decimal(text) ==
  LET s    == strip(text)
      sg   == IF Len(s) > 0 /\ Ch(s, 1) \in {"+", "-"} THEN 1 ELSE 0
      ni   == Span(s, sg + 1, Digits)
      dot  == IF sg + ni + 1 <= Len(s) /\ Ch(s, sg + ni + 1) = "." THEN 1 ELSE 0
      nf   == IF dot = 1 THEN Span(s, sg + ni + 2, Digits) ELSE 0
      ipart == SubSeq(s, sg + 1, sg + ni)
      fpart == SubSeq(s, sg + ni + 2, sg + ni + 1 + nf)
  IN  IF sg + ni + dot + nf = Len(s) /\ ni + nf > 0
      THEN Dec(sg = 1 /\ Ch(s, 1) = "-", BOfDigits(ipart \o fpart), nf)
      ELSE None

\* Decimal("0"), Decimal("0.01")
DecZero == Dec(FALSE, <<>>, 0)

Cent == Dec(FALSE, <<1>>, 2)

\* a + b; a zero sum is -0 only when both are negative
DecAdd(a, b) ==
  LET e   == Max(a.e, b.e)
      ma  == BMulPow10(a.m, e - a.e)
      mb  == BMulPow10(b.m, e - b.e)
      cmp == BCmp(ma, mb)
  IN  IF a.neg = b.neg THEN Dec(a.neg, BAdd(ma, mb), e)
      ELSE IF cmp = 0 THEN Dec(FALSE, <<>>, e)
      ELSE IF cmp > 0 THEN Dec(a.neg, BSub(ma, mb), e)
      ELSE Dec(b.neg, BSub(mb, ma), e)

\* a - b, abs(a), a < b, a > b
DecSub(a, b) == DecAdd(a, Dec(~b.neg, b.m, b.e))

DecAbs(a) == Dec(FALSE, a.m, a.e)

DecLt(a, b) == LET d == DecSub(a, b) IN d.neg /\ d.m # <<>>

DecGt(a, b) == DecLt(b, a)

\* bool(a): a Decimal is true when it is not zero
DecTrue(a) == a.m # <<>>

\* d.quantize(Decimal("0.01")) in the default context: ROUND_HALF_EVEN, and
\* InvalidOperation (here None) when the result needs more than the context's 28
\* digits
quantize(d) ==
  LET m == IF d.e <= 2 THEN BMulPow10(d.m, 2 - d.e) ELSE RoundDiv(d.m, d.e - 2, 0)
  IN  IF BDigits(m) > 28 THEN None ELSE Dec(d.neg, m, 2)

(***************************************************************************)
(* float: [neg, M, x] is the double (-1)^neg * M * 2^x, M of at most 53     *)
(* bits.  The amounts of this model are far from the subnormal and the     *)
(* overflow range.                                                         *)
(***************************************************************************)
Float(neg, M, x) == [neg |-> neg, M |-> M, x |-> x]

\* the number of bits of M above 53, t = 2^53 to begin with
RECURSIVE BitsOver(_, _)
BitsOver(M, t) == IF BCmp(M, t) < 0 THEN 0 ELSE 1 + BitsOver(M, BMulSmall(t, 2))

\* M * 2^x rounded to a significand of 53 bits, ties to even
RoundFloat(neg, M, x) ==
  LET over == BitsOver(M, BMulPow2(<<1>>, 53))
  IN  IF over = 0 THEN Float(neg, M, x)
      ELSE Float(neg, RoundDiv(M, 0, over), x + over)

\* float(d): the double nearest to the Decimal
float(d) ==
  IF d.m = <<>> THEN Float(d.neg, <<>>, 0)
  ELSE LET n == Log2Floor(d.m, BMulPow10(<<1>>, d.e))
       IN  IF n <= 52 THEN Float(d.neg, RoundDiv(BMulPow2(d.m, 52 - n), d.e, 0), n - 52)
           ELSE Float(d.neg, RoundDiv(d.m, d.e, n - 52), n - 52)

\* int(f), for f >= 0: the integer part
FloatInt(f) == IF f.x >= 0 THEN BMulPow2(f.M, f.x) ELSE BDivPow2(f.M, 0 - f.x)

\* f % 1, for f >= 0: exact
FloatMod1(f) ==
  IF f.x >= 0 THEN Float(FALSE, <<>>, 0)
  ELSE Float(FALSE, BSub(f.M, BMulPow2(FloatInt(f), 0 - f.x)), f.x)

\* f * k for an integer 0 <= k <= 10^4: the product, rounded
FloatMul(f, k) == RoundFloat(f.neg, BMulSmall(f.M, k), f.x)

\* f == int(f), for f >= 0
FloatIsInt(f) == FloatMod1(f).M = <<>>

\* f < k for an integer k >= 0
FloatLt(f, k) ==
  IF f.neg THEN f.M # <<>> \/ k > 0
  ELSE IF f.x >= 0 THEN BCmp(BMulPow2(f.M, f.x), BOfInt(k)) < 0
  ELSE BCmp(f.M, BMulPow2(BOfInt(k), 0 - f.x)) < 0

\* f"{f:.2f}": the exact value of the double rounded to two decimals, ties to even
FloatFormat2(f) ==
  LET cents == IF f.x >= 0 THEN BMulPow2(BMulSmall(f.M, 100), f.x)
               ELSE RoundDiv(BMulSmall(f.M, 100), 0, 0 - f.x)
      frac  == BModSmall(cents, 100)
  IN  (IF f.neg THEN "-" ELSE "") \o BToStr(BDivSmall(cents, 100)) \o "."
        \o IntStr(frac \div 10) \o IntStr(frac % 10)

\* f"{float(d):.2f}"
Format2(d) == FloatFormat2(float(d))

(***************************************************************************)
(* Data model                                                              *)
(***************************************************************************)
\* Expense (dataclass): an amount (Decimal) and a remark (str)
Expense(amount, remark) == [amount |-> amount, remark |-> remark]

NoRemark == "No Remark Available"

(***************************************************************************)
(* OCRProcessor._parse_text                                                *)
(***************************************************************************)
\* re.match(r"^(\d+\.?\d*)", token).group(): the matched prefix, "" for no match
\* (a match holds at least one digit)
amount_match(token) ==
  LET n1  == Span(token, 1, Digits)
      dot == IF n1 + 1 <= Len(token) /\ Ch(token, n1 + 1) = "." THEN 1 ELSE 0
      n2  == Span(token, n1 + dot + 1, Digits)
  IN  IF n1 = 0 THEN "" ELSE SubSeq(token, 1, n1 + dot + n2)

\* the remark rule with the length test off by one: a remark of 6 digits is lost
remark_of_short(parts) ==
  LET last == parts[Len(parts)]
  IN  IF isdigit(last) /\ Len(last) < 6 THEN last ELSE NoRemark

\* the remark of a line: its last token when all digits and at most 6 long
remark_of(parts) ==
  LET last == parts[Len(parts)]
  IN  IF isdigit(last) /\ Len(last) <= 6 THEN last ELSE NoRemark

\* the body of the loop for one line: the expenses it appends (none or one)
parse_line(line) ==
  IF Len(strip(line)) = 0 THEN <<>>
  ELSE LET parts  == split(line)
           match  == amount_match(parts[1])
           amount == Decimal(remove_commas(match))
       IN  IF match = "" THEN <<>>
           ELSE IF amount = None \/ quantize(amount) = None THEN <<>>
           ELSE <<Expense(quantize(amount), remark_of(parts))>>

\* the loop leaving at the first line that yields nothing (break for continue)
RECURSIVE parse_lines_until_skip(_)
parse_lines_until_skip(lines) ==
  IF Len(lines) = 0 \/ parse_line(Head(lines)) = <<>> THEN <<>>
  ELSE parse_line(Head(lines)) \o parse_lines_until_skip(Tail(lines))

\* the loop over the lines, in order
RECURSIVE parse_lines(_)
parse_lines(lines) ==
  IF Len(lines) = 0 THEN <<>>
  ELSE parse_line(Head(lines)) \o parse_lines(Tail(lines))

parse_text(text) == parse_lines(split_lines(text))

(***************************************************************************)
(* ErrorCorrectionDialog                                                   *)
(***************************************************************************)
\* _is_suspicious, for an amount >= 0 (the amounts read back from the cells
\* _setup_expense_table has just filled)
is_suspicious(expense) ==
  LET amount == float(expense.amount)
      cents  == BToInt(FloatInt(FloatMul(FloatMod1(amount), 100)))
  IN  \/ FloatIsInt(amount)
      \/ FloatLt(amount, 10)
      \/ cents \notin {0, 50, 95, 99} /\ cents < 90

\* the row of the table _setup_expense_table makes of an expense: the amount cell
\* holds f"{float(expense.amount):.2f}", the remark cell the remark
table_row(expense) == [amount |-> Format2(expense.amount), remark |-> expense.remark]

setup_expense_table(exps) == [i \in 1..Len(exps) |-> table_row(exps[i])]

\* _filter_suspicious_entries: the rows hidden, those whose expense, read back from
\* the cells, is not suspicious
filter_suspicious_entries(table) ==
  [i \in 1..Len(table) |->
     ~is_suspicious(Expense(Decimal(table[i].amount), table[i].remark))]

\* every amount cell of the table reads as a Decimal
AllParse(table) == \A i \in 1..Len(table) : Decimal(table[i].amount) # None

\* the running sum of the loops of _update_totals and _check_total_match, from
\* Decimal("0"), when every cell reads as a Decimal
RECURSIVE table_total(_)
table_total(table) ==
  IF Len(table) = 0 THEN DecZero
  ELSE DecAdd(table_total(SubSeq(table, 1, Len(table) - 1)),
              Decimal(table[Len(table)].amount))

\* abs(difference) < Decimal("0.01"), the test that colours the difference green
within_tolerance(difference) == DecLt(DecAbs(difference), Cent)

\* _update_totals: the labels after it ran on dialog d.  A cell that does not read
\* as a Decimal raises inside the try: the handler resets the current total label
\* and leaves the style sheet as it was.
update_totals(d) ==
  IF ~AllParse(d.table)
  THEN [d EXCEPT !.current_total_label = "Current Total: $0.00",
                 !.difference_label = "Difference: N/A"]
  ELSE LET current_total == table_total(d.table)
           difference    == DecSub(d.expected_total, current_total)
       IN  IF d.expected_total = None
           THEN [d EXCEPT !.current_total_label =
                            "Current Total: $" \o Format2(current_total)]
           ELSE [d EXCEPT !.current_total_label =
                            "Current Total: $" \o Format2(current_total),
                          !.difference_label =
                            "Difference: $" \o Format2(difference),
                          !.difference_style =
                            IF within_tolerance(difference)
                            THEN "color: green;" ELSE "color: red;"]

\* ErrorCorrectionDialog.__init__
ErrorCorrectionDialog(exps, expected) ==
  LET table == setup_expense_table(exps)
  IN  update_totals(
        [expenses             |-> exps,
         expected_total       |-> expected,
         expected_total_label |->
           IF expected # None /\ DecTrue(expected)
           THEN "Expected Total: $" \o Format2(expected)
           ELSE "Expected Total: Not Set",
         current_total_label  |-> "Current Total: $0.00",
         difference_label     |-> "Difference: $0.00",
         difference_style     |-> "",
         table                |-> table,
         hidden               |-> filter_suspicious_entries(table)])

\* get_corrected_expenses: a row whose amount does not read as a Decimal is skipped
RECURSIVE get_corrected_expenses(_)
get_corrected_expenses(table) ==
  IF Len(table) = 0 THEN <<>>
  ELSE LET amount == Decimal(Head(table).amount)
       IN  (IF amount = None \/ quantize(amount) = None THEN <<>>
            ELSE <<Expense(quantize(amount), Head(table).remark)>>)
             \o get_corrected_expenses(Tail(table))

\* _check_total_match up to self.accept(): "raise" when a cell does not read as a
\* Decimal (nothing catches it), "ask" when the question box is shown, "accept"
\* otherwise
check_total_match(d) ==
  IF d.expected_total = None THEN "accept"
  ELSE IF ~AllParse(d.table) THEN "raise"
  ELSE LET difference == DecAbs(DecSub(d.expected_total, table_total(d.table)))
       IN  IF DecGt(difference, Cent) THEN "ask" ELSE "accept"

(***************************************************************************)
(* ExpenseApp                                                              *)
(***************************************************************************)
\* sum(expense.amount for expense in self.expenses), from the int 0
RECURSIVE ledger_total(_)
ledger_total(exps) ==
  IF Len(exps) = 0 THEN DecZero
  ELSE DecAdd(ledger_total(SubSeq(exps, 1, Len(exps) - 1)), exps[Len(exps)].amount)

\* sorted(self.expenses, key=lambda x: x.amount): stable, ascending
RECURSIVE insert_sorted(_, _)
insert_sorted(sorted, x) ==
  IF Len(sorted) = 0 THEN <<x>>
  ELSE IF DecLt(x.amount, sorted[Len(sorted)].amount)
       THEN Append(insert_sorted(SubSeq(sorted, 1, Len(sorted) - 1), x),
                   sorted[Len(sorted)])
       ELSE Append(sorted, x)

RECURSIVE sorted_by_amount(_)
sorted_by_amount(exps) ==
  IF Len(exps) = 0 THEN <<>>
  ELSE insert_sorted(sorted_by_amount(SubSeq(exps, 1, Len(exps) - 1)), exps[Len(exps)])

\* _save_json up to the file dialog: "empty" (nothing to save), "ask" when the
\* save-anyway question is shown, "proceed" otherwise
save_json_check(exps, expected) ==
  IF Len(exps) = 0 THEN "empty"
  ELSE IF expected = None THEN "proceed"
  ELSE LET difference == DecAbs(DecSub(expected, ledger_total(exps)))
       IN  IF DecGt(difference, Cent) THEN "ask" ELSE "proceed"

\* the ledger replaced by the session's records instead of extended
extend_replacing(exps, corrected) == corrected

\* self.expenses.extend(corrected_expenses)
extend(exps, corrected) == exps \o corrected

(***************************************************************************)
(* Inputs and bounds                                                       *)
(***************************************************************************)
\* captures are taken while the ledger holds fewer records than this
MaxLedger == 2

\* the texts OCR returns for a capture
OcrTexts == {" \n", "100 Lunch", "500.00 1023", "12.50 3\n499.99 7"}

\* what the operator types into an amount cell
EditTexts == {"abc", "499.99"}

\* what the operator types into the expected total dialog
TotalTexts == {"500.00", "abc"}

Replies == {"Yes", "No"}

\* Texts for the extraction: every text over Alphabet of at most MaxTextLen
\* characters, the amounts of 0 to MaxCents cents each on a line of its own, an
\* amount followed by (or made of) a run of 1 to MaxRemarkLen digits, and the
\* scenarios below.
MaxTextLen == 3

MaxCents == 2000

MaxRemarkLen == 8

Alphabet == {"1", "2", ".", ",", " ", "\n", "a"}

RECURSIVE Texts(_)
Texts(n) ==
  IF n = 0 THEN {""}
  ELSE LET shorter == Texts(n - 1)
       IN  shorter \cup {s \o c : s \in shorter, c \in Alphabet}

ShortTexts == Texts(MaxTextLen)

AmountTexts == {Format2(Dec(FALSE, BOfInt(c), 2)) : c \in 0..MaxCents}

DigitRun(n) == SubSeq("1234567890", 1, n)

RemarkTexts ==
  {"5.00 " \o DigitRun(n) : n \in 1..MaxRemarkLen} \cup {DigitRun(n) : n \in 1..MaxRemarkLen}

ScenarioTexts ==
  {"51.34 1023", "100 Lunch", "1,234.56 1023", "5. 12 x", "7.005 9\n7.015 9",
   "99999999999999.99 12", "123456789012345678901234567 12\n7.25 44",
   "Total due\n12.50 3\n\n499.99 7 \n .5 8\n123456789012345678901234567\n3 000123\n4 12a",
   "123456\n2.50 1234567", "7 12 x1\n8"}

ExtractTexts == ShortTexts \cup AmountTexts \cup RemarkTexts \cup ScenarioTexts

\* the main window before the capture: nothing processed and no expected total, or
\* one earlier session accepted and an expected total set
PriorLedgers == {<<>>, <<Expense(Dec(FALSE, <<1250>>, 2), "3")>>}

(***************************************************************************)
(* State                                                                   *)
(***************************************************************************)
VARIABLES
  expenses,            \* ExpenseApp.expenses, the ledger
  total_processed,     \* ExpenseApp.total_processed
  expected_total,      \* ExpenseApp.expected_total, a Decimal or None
  total_label,         \* text of ExpenseApp.total_label
  counter_label,       \* text of ExpenseApp.counter_label
  pc,                  \* "main": the main window waits for a click;
                       \* "ocr": _capture_screenshot holds the OCR text (line 461);
                       \* "review": _capture_screenshot is in dialog.exec() (line 465);
                       \* "aborted": an exception left a slot and ended the process;
                       \* "closed": the window was closed
  ocr_text,            \* the text pytesseract returned for the last capture
  dialog,              \* the open ErrorCorrectionDialog, or None
  corrected_expenses,  \* what get_corrected_expenses last returned (line 466)
  shown,               \* the last handler that ran, the title of the question box it
                       \* showed with the reply given, and the title of the other
                       \* message box it showed ("" for none)
  raised,              \* the last handler ended by an exception nothing caught
  saved_file           \* the expenses last written by _save_json, or None

vars == <<expenses, total_processed, expected_total, total_label, counter_label,
          pc, ocr_text, dialog, corrected_expenses, shown, raised, saved_file>>

app_vars == <<expenses, total_processed, expected_total, total_label, counter_label>>

Shown(handler, question, reply, notice) ==
  [handler |-> handler, question |-> question, reply |-> reply, notice |-> notice]

\* TotalInputDialog.get_total
get_total(text) == Decimal(text)

\* ExpenseApp.__init__ and _add_status_labels
Init ==
  /\ expenses = <<>>
  /\ total_processed = 0
  /\ expected_total = None
  /\ total_label = "Expected Total: Not Set"
  /\ counter_label = "Processed expenses: 0"
  /\ pc = "main"
  /\ ocr_text = ""
  /\ dialog = None
  /\ corrected_expenses = <<>>
  /\ shown = Shown("", "", "", "")
  /\ raised = FALSE
  /\ saved_file = None

\* the main window during a capture, at line 461 with the text OCR returned
InitExtract ==
  /\ ocr_text \in ExtractTexts
  /\ expenses \in PriorLedgers
  /\ total_processed = Len(expenses)
  /\ counter_label = "Processed expenses: " \o IntStr(Len(expenses))
  /\ corrected_expenses = expenses
  /\ expected_total = IF Len(expenses) = 0 THEN None ELSE get_total("500.00")
  /\ total_label = IF Len(expenses) = 0 THEN "Expected Total: Not Set"
                   ELSE "Expected Total: $" \o Format2(get_total("500.00"))
  /\ pc = "ocr"
  /\ dialog = None
  /\ shown = Shown("_capture_screenshot", "", "", "Region Selection")
  /\ raised = FALSE
  /\ saved_file = None

(***************************************************************************)
(* Handlers                                                                *)
(***************************************************************************)
\* _set_expected_total: the operator types text and presses OK, or cancels
SetExpectedTotal ==
  /\ pc = "main"
  /\ \E text \in TotalTexts, ok \in BOOLEAN :
       IF ok
       THEN /\ expected_total' = get_total(text)
            /\ IF get_total(text) # None
               THEN /\ total_label' = "Expected Total: $" \o Format2(get_total(text))
                    /\ shown' = Shown("_set_expected_total", "", "", "")
               ELSE /\ total_label' = total_label
                    /\ shown' = Shown("_set_expected_total", "", "", "Invalid Input")
       ELSE /\ UNCHANGED <<expected_total, total_label>>
            /\ shown' = Shown("_set_expected_total", "", "", "")
  /\ raised' = FALSE
  /\ UNCHANGED <<expenses, total_processed, counter_label, pc, ocr_text, dialog,
                 corrected_expenses, saved_file>>

\* _capture_screenshot up to process_image: the region is captured and OCR returns
\* a text, or the capture fails and the except branch reports it
CaptureImage ==
  /\ pc = "main"
  /\ Len(expenses) < MaxLedger
  /\ \/ /\ \E text \in OcrTexts : ocr_text' = text
        /\ pc' = "ocr"
        /\ shown' = Shown("_capture_screenshot", "", "", "Region Selection")
     \/ /\ UNCHANGED <<ocr_text, pc>>
        /\ shown' = Shown("_capture_screenshot", "", "", "Error")
  /\ raised' = FALSE
  /\ UNCHANGED <<app_vars, dialog, corrected_expenses, saved_file>>

\* _capture_screenshot, lines 461-478: the text is parsed; a non-empty batch opens
\* the review dialog, an empty one is reported
ProcessText ==
  /\ pc = "ocr"
  /\ LET new_expenses == parse_text(ocr_text)
     IN  IF Len(new_expenses) > 0
         THEN /\ dialog' = ErrorCorrectionDialog(new_expenses, expected_total)
              /\ pc' = "review"
              /\ UNCHANGED shown
         ELSE /\ dialog' = None
              /\ pc' = "main"
              /\ shown' = Shown("_capture_screenshot", "", "", "Warning")
  /\ UNCHANGED <<app_vars, ocr_text, corrected_expenses, raised, saved_file>>

\* the operator edits the amount cell of a visible row; itemChanged runs
\* _update_totals
EditAmount ==
  /\ pc = "review"
  /\ \E row \in 1..Len(dialog.table), text \in EditTexts :
       /\ ~dialog.hidden[row]
       /\ dialog' = update_totals([dialog EXCEPT !.table[row].amount = text])
  /\ shown' = Shown("_update_totals", "", "", "")
  /\ raised' = FALSE
  /\ UNCHANGED <<app_vars, pc, ocr_text, corrected_expenses, saved_file>>

\* show_all_entries
ShowAllEntries ==
  /\ pc = "review"
  /\ dialog' = [dialog EXCEPT !.hidden = [i \in 1..Len(dialog.table) |-> FALSE]]
  /\ shown' = Shown("show_all_entries", "", "", "")
  /\ raised' = FALSE
  /\ UNCHANGED <<app_vars, pc, ocr_text, corrected_expenses, saved_file>>

\* dialog.exec() returned Accepted: _capture_screenshot, lines 466-471
Accepted(question, reply) ==
  LET corrected == get_corrected_expenses(dialog.table)
  IN  /\ corrected_expenses' = corrected
      /\ expenses' = extend(expenses, corrected)
      /\ total_processed' = total_processed + Len(corrected)
      /\ counter_label' = "Processed expenses: " \o IntStr(total_processed + Len(corrected))
      /\ pc' = "main"
      /\ dialog' = None
      /\ shown' = Shown("_check_total_match", question, reply, "")
      /\ raised' = FALSE
      /\ UNCHANGED <<expected_total, total_label, ocr_text, saved_file>>

\* the Save Corrections button: _check_total_match.  An exception leaving the slot
\* is printed and the dialog stays open, or it ends the process, as the PyQt
\* build has it.
CheckTotalMatch ==
  /\ pc = "review"
  /\ LET outcome == check_total_match(dialog)
     IN  IF outcome = "accept" THEN Accepted("", "")
         ELSE IF outcome = "ask"
         THEN \E reply \in Replies :
                IF reply = "Yes"
                THEN /\ shown' = Shown("_check_total_match", "Totals Don't Match", "Yes", "")
                     /\ raised' = FALSE
                     /\ UNCHANGED <<app_vars, pc, ocr_text, dialog,
                                    corrected_expenses, saved_file>>
                ELSE Accepted("Totals Don't Match", "No")
         ELSE /\ raised' = TRUE
              /\ shown' = Shown("_check_total_match", "", "", "")
              /\ pc' \in {"review", "aborted"}
              /\ UNCHANGED <<app_vars, ocr_text, dialog, corrected_expenses, saved_file>>

\* the Cancel button or closing the dialog: reject(); dialog.exec() returns
\* Rejected and _capture_screenshot does nothing more
DialogReject ==
  /\ pc = "review"
  /\ pc' = "main"
  /\ dialog' = None
  /\ shown' = Shown("reject", "", "", "")
  /\ raised' = FALSE
  /\ UNCHANGED <<app_vars, ocr_text, corrected_expenses, saved_file>>

\* _save_json: the operator answers the question if it is asked, picks a file
\* name or cancels the file dialog, and the write succeeds or fails
SaveJson ==
  /\ pc = "main"
  /\ LET outcome == save_json_check(expenses, expected_total)
         asked   == IF outcome = "ask" THEN "Totals Don't Match" ELSE ""
     IN  IF outcome = "empty"
         THEN /\ shown' = Shown("_save_json", "", "", "Warning")
              /\ UNCHANGED saved_file
         ELSE \E reply \in IF outcome = "ask" THEN Replies ELSE {""} :
                IF reply = "No"
                THEN /\ shown' = Shown("_save_json", asked, reply, "")
                     /\ UNCHANGED saved_file
                ELSE \E result \in {"cancelled", "written", "failed"} :
                       IF result = "written"
                       THEN /\ shown' = Shown("_save_json", asked, reply, "Success")
                            /\ saved_file' = sorted_by_amount(expenses)
                       ELSE /\ shown' = Shown("_save_json", asked, reply,
                                              IF result = "failed" THEN "Error" ELSE "")
                            /\ UNCHANGED saved_file
  /\ raised' = FALSE
  /\ UNCHANGED <<app_vars, pc, ocr_text, dialog, corrected_expenses>>

\* _confirm_exit
ConfirmExit ==
  /\ pc = "main"
  /\ IF Len(expenses) > 0
     THEN \E reply \in Replies :
            /\ shown' = Shown("_confirm_exit", "Confirm Exit", reply, "")
            /\ pc' = IF reply = "Yes" THEN "closed" ELSE "main"
     ELSE /\ shown' = Shown("_confirm_exit", "", "", "")
          /\ pc' = "closed"
  /\ raised' = FALSE
  /\ UNCHANGED <<app_vars, ocr_text, dialog, corrected_expenses, saved_file>>

Next ==
  \/ SetExpectedTotal
  \/ CaptureImage
  \/ ProcessText
  \/ EditAmount
  \/ ShowAllEntries
  \/ CheckTotalMatch
  \/ DialogReject
  \/ SaveJson
  \/ ConfirmExit

Spec == Init /\ [][Next]_vars

\* one capture from the OCR text on: the parse, then the review of the batch
NextExtract ==
  \/ ProcessText
  \/ CheckTotalMatch
  \/ DialogReject

SpecExtract == InitExtract /\ [][NextExtract]_vars

(***************************************************************************)
(* Properties                                                              *)
(***************************************************************************)
\* the step is a press of Save Corrections in the open dialog
SaveAttempt == pc = "review" /\ shown'.handler = "_check_total_match"

\* the step moves the session from Reviewing to Accepted
AcceptStep == SaveAttempt /\ pc' = "main"

IsPrefix(s, t) == Len(s) <= Len(t) /\ SubSeq(t, 1, Len(s)) = s

\* C1: with an expected total set, a save attempt on a batch whose total is not
\* within tolerance of it (|expected - total| < 0.01 fails, the difference of
\* exactly 0.01 included) is accepted only after the override question was asked
\* and answered for that attempt; the operator choosing to go on reviewing leaves
\* the session as it is.
C1_MismatchNeedsOverride ==
  [][SaveAttempt /\ dialog.expected_total # None /\ AllParse(dialog.table)
       /\ ~within_tolerance(DecSub(dialog.expected_total, table_total(dialog.table)))
     => /\ shown'.question = "Totals Don't Match"
        /\ shown'.reply = "Yes" => pc' = "review" /\ dialog' = dialog
        /\ pc' = "main" => shown'.reply = "No"]_vars

\* C2: the ledger only grows by appending: every step leaves the old ledger a
\* prefix of the new one, it changes only when a session is accepted, which
\* appends the list the session emitted, and a cancelled session or an empty
\* extraction leaves it as it was.
C2_LedgerAppendOnly ==
  [][/\ IsPrefix(expenses, expenses')
     /\ expenses' # expenses => AcceptStep
     /\ AcceptStep => expenses' = expenses \o corrected_expenses'
     /\ shown'.handler = "reject" => expenses' = expenses
     /\ pc = "ocr" /\ pc' = "main" => expenses' = expenses]_vars

\* C2 witness: an accepted session appended its records to a ledger that held
\* some already
C2_Witness ==
  /\ pc = "main"
  /\ shown.handler = "_check_total_match"
  /\ Len(corrected_expenses) > 0
  /\ Len(expenses) > Len(corrected_expenses)

\* C3: an edit that puts text that is no number into an amount cell is refused:
\* the cells still read as numbers after any edit, the current total label shows
\* their sum, and no later save attempt raises or emits fewer records than rows.
C3_InvalidEditRejected ==
  [][/\ pc = "review" /\ shown'.handler = "_update_totals" /\ AllParse(dialog.table)
          => /\ AllParse(dialog'.table)
             /\ dialog'.current_total_label =
                  "Current Total: $" \o Format2(table_total(dialog'.table))
     /\ SaveAttempt => ~raised'
     /\ AcceptStep => Len(corrected_expenses') = Len(dialog.table)]_vars

\* the rows of the table whose amount reads as a number, in order, as expenses
ParsingRows(table) ==
  LET rows == SelectSeq(table, LAMBDA r : Decimal(r.amount) # None
                                           /\ quantize(Decimal(r.amount)) # None)
  IN  [i \in 1..Len(rows) |-> Expense(quantize(Decimal(rows[i].amount)), rows[i].remark)]

\* C4: a save attempt never raises, whether or not an expected total is set, and
\* an accepted session emits exactly the rows whose amount reads as a number, in
\* order and with their remarks, hidden or not.
C4_EmitsParsingRows ==
  [][SaveAttempt
     => /\ ~raised'
        /\ pc' = "main" => corrected_expenses' = ParsingRows(dialog.table)]_vars

\* ProcessText has run on ocr_text and nothing has happened since: the review
\* dialog is open, or the batch was empty and the warning was shown
Processed ==
  \/ pc = "review"
  \/ pc = "main" /\ shown = Shown("_capture_screenshot", "", "", "Warning")

\* the batch extracted from ocr_text
Batch == IF pc = "review" THEN dialog.expenses ELSE <<>>

FirstToken(line) == split(line)[1]

LastToken(line) == split(line)[Len(split(line))]

NonBlank(line) == \E i \in 1..Len(line) : Ch(line, i) \notin Whitespace

\* the non-blank lines of ocr_text whose first token starts with a digit, in order
DigitLed(line) == NonBlank(line) /\ Ch(FirstToken(line), 1) \in Digits

DigitLedLines == SelectSeq(split_lines(ocr_text), DigitLed)

\* the amount of a digit-led line: the digits, optional point and digits its first
\* token begins with, to two decimals; None when that does not fit a Decimal
AmountOf(line) == quantize(Decimal(amount_match(FirstToken(line))))

Yields(line) == DigitLed(line) /\ AmountOf(line) # None

YieldingLines == SelectSeq(split_lines(ocr_text), Yields)

\* the rule of the claim on a two-decimal amount d >= 0, in exact arithmetic
SuspiciousRule(d) ==
  LET cents == BModSmall(d.m, 100)
  IN  \/ cents = 0
      \/ BCmp(d.m, BOfInt(1000)) < 0
      \/ cents \notin {0, 50, 95, 99} /\ cents < 90

\* C5: in a dialog just opened, a row is shown by the suspicious filter exactly
\* when its two-decimal amount is a whole-dollar amount, or below 10.00, or has
\* cents outside {00, 50, 95, 99} and below 90 (so 19.90 is hidden, 51.34 shown).
C5_SuspiciousIsDecimalRule ==
  pc = "review" /\ shown.handler = "_capture_screenshot"
    => \A i \in 1..Len(dialog.table) :
         LET amount == Decimal(dialog.table[i].amount)
         IN  amount # None /\ amount.e = 2
               => (dialog.hidden[i] <=> ~SuspiciousRule(amount))

\* ",ddd" repeated
RECURSIVE ThousandsGroups(_)
ThousandsGroups(s) ==
  \/ Len(s) = 0
  \/ /\ Len(s) >= 4
     /\ Ch(s, 1) = ","
     /\ isdigit(SubSeq(s, 2, 4))
     /\ ThousandsGroups(SubSeq(s, 5, Len(s)))

\* a decimal numeral: digits, with or without comma thousands separators, then
\* optionally a point and at most two digits
IsNumeral(token) ==
  LET n    == SpanNot(token, 1, {"."})
      ip   == SubSeq(token, 1, n)
      fp   == SubSeq(token, n + 2, Len(token))
      lead == Span(ip, 1, Digits)
  IN  /\ lead >= 1
      /\ lead = Len(ip) \/ (lead <= 3 /\ ThousandsGroups(SubSeq(ip, lead + 1, Len(ip))))
      /\ Len(fp) <= 2
      /\ Len(fp) = 0 \/ isdigit(fp)

\* the value of a numeral with its commas removed, to two decimals
NumeralValue(token) == quantize(Decimal(remove_commas(token)))

\* C6: when the first token of every digit-led line of the text is a decimal
\* numeral with at most two fraction digits and optional comma thousands
\* separators, the batch holds one record per such line, in order, whose amount is
\* the numeral's value with the commas removed ("1,234.56" gives 1234.56).
C6_NumeralValueExtracted ==
  Processed /\ (\A k \in 1..Len(DigitLedLines) : IsNumeral(FirstToken(DigitLedLines[k])))
    => /\ Len(Batch) = Len(DigitLedLines)
       /\ \A k \in 1..Len(Batch) :
            Batch[k].amount = NumeralValue(FirstToken(DigitLedLines[k]))

\* C7: the remark of the record of each yielding line is the line's last token
\* when that token is all digits and at most 6 long, and "No Remark Available"
\* otherwise; on a one-token line the last token is the amount token.
C7_RemarkIsLastToken ==
  Processed
    => /\ Len(Batch) = Len(YieldingLines)
       /\ \A k \in 1..Len(Batch) :
            LET last == LastToken(YieldingLines[k])
            IN  Batch[k].remark =
                  IF Len(last) <= 6 /\ (\A i \in 1..Len(last) : Ch(last, i) \in Digits)
                  THEN last ELSE "No Remark Available"

\* C7 witness: a batch was extracted whose first record comes from a one-token
\* line of 6 digits, the amount token being the remark, and whose second comes
\* from a line ending in a token of 7 digits, which gets the sentinel
C7_Witness ==
  /\ pc = "review"
  /\ Len(YieldingLines) = 2
  /\ Len(split(YieldingLines[1])) = 1
  /\ Len(LastToken(YieldingLines[1])) = 6
  /\ Batch[1].remark = FirstToken(YieldingLines[1])
  /\ Len(LastToken(YieldingLines[2])) = 7
  /\ Batch[2].remark = "No Remark Available"

\* C8: the parse of a text gives one record for each yielding line, in line order
\* (blank lines, lines whose first token starts with no digit and lines whose
\* amount does not fit are skipped, the lines after them are still read); a text
\* with no yielding line, an empty or blank text among them, opens no dialog,
\* raises nothing, shows the warning and leaves the ledger as it was.
C8_OneRecordPerYieldingLine ==
  [][pc = "ocr"
     => /\ ~raised'
        /\ expenses' = expenses
        /\ IF Len(YieldingLines) = 0
           THEN /\ pc' = "main"
                /\ dialog' = None
                /\ shown'.notice = "Warning"
           ELSE /\ pc' = "review"
                /\ Len(dialog'.expenses) = Len(YieldingLines)
                /\ \A k \in 1..Len(YieldingLines) :
                     dialog'.expenses[k].amount = AmountOf(YieldingLines[k])]_vars

\* C8 witness: a batch was extracted from a text in which a blank line, a line
\* led by no digit and a line whose amount does not fit come before yielding lines
C8_Witness ==
  /\ pc = "review"
  /\ LET lines == split_lines(ocr_text)
     IN  /\ \E i, j \in 1..Len(lines) : i < j /\ ~NonBlank(lines[i]) /\ Yields(lines[j])
         /\ \E i, j \in 1..Len(lines) :
              i < j /\ NonBlank(lines[i]) /\ ~DigitLed(lines[i]) /\ Yields(lines[j])
         /\ \E i, j \in 1..Len(lines) :
              i < j /\ DigitLed(lines[i]) /\ ~Yields(lines[i]) /\ Yields(lines[j])
  /\ Len(Batch) >= 3
  /\ DecLt(Batch[3].amount, Batch[2].amount)

\* C9: accepting a session whose table is as it was loaded appends the extracted
\* batch itself to the ledger: the same records in the same order.
C9_UneditedAcceptAppendsBatch ==
  [][AcceptStep /\ dialog.table = setup_expense_table(dialog.expenses)
     => /\ corrected_expenses' = dialog.expenses
        /\ expenses' = expenses \o dialog.expenses]_vars

\* the step is an export attempt on a non-empty ledger with an expected total set
ExportAttempt ==
  pc = "main" /\ shown'.handler = "_save_json" /\ Len(expenses) > 0
    /\ expected_total # None

\* C10: an export with an expected total set asks the save-anyway question exactly
\* when |expected_total - ledger total| < 0.01 fails, and a declined question
\* writes nothing and leaves the ledger as it was.
C10_ExportAsksIffMismatch ==
  [][ExportAttempt
     => /\ shown'.question = "Totals Don't Match"
             <=> ~within_tolerance(DecSub(expected_total, ledger_total(expenses)))
        /\ shown'.reply = "No" => saved_file' = saved_file /\ expenses' = expenses]_vars

\* the step is a run of _set_expected_total while an expected total is in force
SetTotalAttempt ==
  pc = "main" /\ shown'.handler = "_set_expected_total" /\ expected_total # None

\* C11: a set-expected-total action that fails (text that is no number, reported
\* by the Invalid Input box, or a cancelled dialog) leaves the expected total set
\* earlier in force, with its label: after any run of the action an expected
\* total is still set, and after the Invalid Input box it is the earlier one.
C11_FailedSetKeepsTotal ==
  [][SetTotalAttempt
     => /\ expected_total' # None
        /\ shown'.notice = "Invalid Input"
             => expected_total' = expected_total /\ total_label' = total_label]_vars

====
